---- MODULE Spec2Model ----
(***************************************************************************)
(* Model of src/app.py: the Streamlit script of the shark foraging         *)
(* dashboard.  One script run is: session-state initialisation, the        *)
(* sidebar widgets and the refresh button, the refresh block (dataset      *)
(* load, then model prediction) and the rendering of the map.  A script    *)
(* run goes from its first line to its last: a run that the framework      *)
(* stops half-way because of a new interaction is not modelled.            *)
(*                                                                         *)
(* Numbers: latitudes, longitudes and normalised coordinates are exact     *)
(* rationals [n, d] (d > 0) in place of the float64 values of numpy; the   *)
(* rates returned by the model are integers.                               *)
(***************************************************************************)
EXTENDS Integers, Sequences, FiniteSets, TLC

VARIABLES
    ss,             \* st.session_state: a function from the keys present to values
    pc,             \* position of the script run: "idle", "load", "predict", "render"
    refresh,        \* value of the 'Refresh Map' button in the current run
    grid_lat_res,   \* slider values of the current run
    grid_lon_res,
    num_samples,
    first_run,      \* the session-state initialisation block ran in the current run
    had_overlay,    \* an overlay was held when the current run started
    dataset,        \* what pd.read_csv met in the current run
    model,          \* what pickle.load / predict_rate did in the current run
    trace,          \* what the prediction block did in the current run
    overlay_params, \* <<lat res, lon res, samples>> of the refresh that stored the held overlay
    dataset_warning,\* the dataset load of the current run surfaced a warning
    overlay_model,  \* the model used by the refresh that stored the held overlay
    repeated,       \* the refresh of the current run succeeded with the resolutions, the
                    \* sample count and the model of the refresh that stored the overlay
                    \* held when the run started
    suspended       \* the other session of the process, whose script thread is not
                    \* running: its id and its values of the variables above
                    \* (NoSession when the process serves one session)

vars == <<ss, pc, refresh, grid_lat_res, grid_lon_res, num_samples, first_run,
          had_overlay, dataset, model, trace, overlay_params, dataset_warning,
          overlay_model, repeated, suspended>>

-----------------------------------------------------------------------------
(* Bounds of the model *)

MaxLatSteps == 1        \* latitude slider positions above its minimum
MaxGen == 2             \* successful refreshes per session
MaxRes == 3             \* largest resolution when the block is run off the sliders
SmallRows == 2          \* size of the small dataset
MaxExtraRows == 1       \* rows above the cap in the large dataset
TwoRes == 2             \* both resolutions when two sessions are run

(* Program constants *)

LatSliderMin == 10
LatSliderStep == 5
LonSliderMin == 20
SampleSliderMin == 100
SampleSliderStep == 100
MaxSharks == 1000
lat_min == 8
lat_max == 55
lon_min == -98
lon_max == -25
ProductivityCount == 40

-----------------------------------------------------------------------------
(* Values *)

NoneVal == [kind |-> "None"]
ListVal(s) == [kind |-> "list", items |-> s]

Rat(n, d) == [n |-> n, d |-> d]
RatEq(a, b) == a.n * b.d = b.n * a.d

t_last == Rat(1, 1)

Min(a, b) == IF a <= b THEN a ELSE b

Keys == {"productivity_points", "shark_locs", "pred_heat", "last_refresh"}

-----------------------------------------------------------------------------
(* Session-state initialisation, lines 22-26: if any of the four keys is   *)
(* missing, all four are (re)set.                                          *)

(* Variant: the four keys are reset in every run *)
InitSessionAlways(s) ==
    [k \in DOMAIN s \cup Keys |->
        IF k = "last_refresh" THEN 0
        ELSE IF k \in Keys THEN NoneVal
        ELSE s[k]]

InitSession(s) ==
    IF Keys \subseteq DOMAIN s
    THEN s
    ELSE [k \in DOMAIN s \cup Keys |->
            IF k = "last_refresh" THEN 0
            ELSE IF k \in Keys THEN NoneVal
            ELSE s[k]]

(* Variant: recompute whenever no overlay is held *)
RefreshConditionOnOverlay(s, button) ==
    button \/ s["pred_heat"] = NoneVal

(* Variant: recompute on the button only *)
RefreshConditionButtonOnly(s, button) ==
    button

(* Variant: every run recomputes *)
RefreshConditionAlways(s, button) ==
    TRUE

(* The refresh condition, line 41 *)
RefreshCondition(s, button) ==
    button \/ s["productivity_points"] = NoneVal

(* Lines 43-46: 40 random productivity points; only their number is kept *)
RegenerateProductivity(s) ==
    [s EXCEPT !["productivity_points"] = [kind |-> "list", count |-> ProductivityCount]]

-----------------------------------------------------------------------------
(* Dataset load, lines 50-65 *)

(* What pd.read_csv can meet: a read error, a frame without the two        *)
(* columns, or a frame with them and `rows` rows.                          *)
Row(i) == <<i, 0 - i>>

DataFrame(rows) == [i \in 1..rows |-> Row(i)]

DatasetSizes == {0, SmallRows} \cup {MaxSharks + k : k \in 0..MaxExtraRows}

Datasets ==
    {[status |-> "error", rows |-> 0], [status |-> "nocols", rows |-> SmallRows]}
    \cup {[status |-> "ok", rows |-> r] : r \in DatasetSizes}

NoDataset == [status |-> "unused", rows |-> 0]

(* Variant: the last 1000 rows are kept *)
TruncateLast(sharks) ==
    SubSeq(sharks, Len(sharks) - Min(MaxSharks, Len(sharks)) + 1, Len(sharks))

(* sharks[:1000], line 58 *)
Truncate(sharks) == SubSeq(sharks, 1, Min(MaxSharks, Len(sharks)))

(* Variant: a dataset failure also drops the overlay *)
DatasetExceptClearsOverlay(s) ==
    [s EXCEPT !["shark_locs"] = ListVal(<<>>), !["pred_heat"] = NoneVal]

(* Variant: a dataset failure keeps the dataset held before *)
DatasetExceptKeep(s) == s

(* except branch, lines 63-65 *)
DatasetExcept(s) == [s EXCEPT !["shark_locs"] = ListVal(<<>>)]

(* The st.warning calls of the try block, lines 57, 62 and 65 *)
LoadWarning(ds) ==
    IF ds.status = "error"
    THEN TRUE
    ELSE IF ds.status = "ok"
         THEN ds.rows > MaxSharks
         ELSE TRUE

(* Variant: the dataset is not loaded *)
LoadSharksSkip(s, ds) == s

(* try block, lines 52-65 *)
LoadSharks(s, ds) ==
    IF ds.status = "error"
    THEN DatasetExcept(s)
    ELSE IF ds.status = "ok"
         THEN LET sharks == DataFrame(ds.rows)
              IN  IF Len(sharks) > MaxSharks
                  THEN [s EXCEPT !["shark_locs"] = ListVal(Truncate(sharks))]
                  ELSE [s EXCEPT !["shark_locs"] = ListVal(sharks)]
         ELSE [s EXCEPT !["shark_locs"] = ListVal(<<>>)]

-----------------------------------------------------------------------------
(* Grid construction and normalisation, lines 71-81 *)

(* Variant: endpoint excluded, step (stop-start)/num *)
LinspaceNoEndpoint(start, stop, num) ==
    [i \in 1..num |-> Rat(start * num + (i - 1) * (stop - start), num)]

(* np.linspace(start, stop, num) for integers start, stop and num >= 0:    *)
(* num = 1 gives [start]; for num > 1 the step is (stop-start)/(num-1)     *)
(* and the last element is set to stop.                                    *)
Linspace(start, stop, num) ==
    IF num = 1
    THEN <<Rat(start, 1)>>
    ELSE [i \in 1..num |->
            IF i = num
            THEN Rat(stop * (num - 1), num - 1)
            ELSE Rat(start * (num - 1) + (i - 1) * (stop - start), num - 1)]

(* [[lat, lon, t_last] for lon in grid_lon], one latitude row *)
GridRow(lat, grid_lon) == [j \in 1..Len(grid_lon) |-> <<lat, grid_lon[j], t_last>>]

(* [[lat, lon, t_last] for lat in grid_lat for lon in grid_lon], line 77 *)
RECURSIVE GridPoints(_, _)
GridPoints(grid_lat, grid_lon) ==
    IF Len(grid_lat) = 0
    THEN <<>>
    ELSE GridRow(Head(grid_lat), grid_lon) \o GridPoints(Tail(grid_lat), grid_lon)

(* Variant: the lower edge of the box is not subtracted *)
NormalizeNoOffset(value, lo, hi) == Rat(value.n, value.d * (hi - lo))

(* (value - lo) / (hi - lo), lines 79-80 *)
Normalize(value, lo, hi) == Rat(value.n - lo * value.d, value.d * (hi - lo))

(* np.column_stack([lon_norm, lat_norm, t_last]), line 81 *)
CoordsPred(grid_points) ==
    [i \in 1..Len(grid_points) |->
        <<Normalize(grid_points[i][2], lon_min, lon_max),
          Normalize(grid_points[i][1], lat_min, lat_max),
          t_last>>]

-----------------------------------------------------------------------------
(* The external model, lines 68-69 and 82.  pickle.load either fails or    *)
(* yields a model; predict_rate either raises or returns rate_mean, whose  *)
(* length and values the script does not control.                          *)

ModelCounts == {"exact", "short", "long", "empty"}

Models ==
    {[load |-> FALSE, beh |-> "const", cnt |-> "exact"],
     [load |-> TRUE, beh |-> "raise", cnt |-> "exact"],
     [load |-> TRUE, beh |-> "nonnumeric", cnt |-> "exact"]}
    \cup {[load |-> TRUE, beh |-> "const", cnt |-> c] : c \in ModelCounts}
    \cup {[load |-> TRUE, beh |-> "grad", cnt |-> c] : c \in {"exact", "short"}}

NoModel == [load |-> FALSE, beh |-> "unused", cnt |-> "exact"]

(* Number of rates returned for n input points *)
RateCount(m, n) ==
    CASE m.cnt = "exact" -> n
      [] m.cnt = "short" -> IF n > 0 THEN n - 1 ELSE 0
      [] m.cnt = "long"  -> n + 1
      [] m.cnt = "empty" -> 0

(* The rate of one input triple <<x, y, t>>: a deterministic function of   *)
(* the triple and the sample count.                                        *)
RateOf(m, c, samples) ==
    IF m.beh = "grad"
    THEN (IF 2 * c[1].n > c[1].d THEN 2 ELSE 0)
         + (IF 2 * c[2].n > c[2].d THEN 1 ELSE 0)
         + (IF samples > SampleSliderMin THEN 4 ELSE 0)
    ELSE 1

(* model.predict_rate(coords_pred, num_samples=..., alpha_regularization=True)[0] *)
PredictRate(m, coords_pred, samples) ==
    [i \in 1..RateCount(m, Len(coords_pred)) |->
        IF i <= Len(coords_pred) THEN RateOf(m, coords_pred[i], samples) ELSE 0]

-----------------------------------------------------------------------------
(* Model prediction, lines 67-95 *)

NoTrace ==
    [entered |-> FALSE, loaded |-> FALSE, calls |-> <<>>, grid |-> <<>>,
     rate_mean |-> <<>>, stored |-> FALSE, raised |-> FALSE]

(* Variant: rates paired with the points in reverse order *)
ZipHeatReversed(grid_points, rate_mean) ==
    [i \in 1..Min(Len(grid_points), Len(rate_mean)) |->
        <<grid_points[i][1], grid_points[i][2],
          rate_mean[Min(Len(grid_points), Len(rate_mean)) + 1 - i]>>]

(* [[lat, lon, float(rate)] for (lat, lon, _), rate in zip(grid_points, rate_mean)] *)
ZipHeat(grid_points, rate_mean) ==
    [i \in 1..Min(Len(grid_points), Len(rate_mean)) |->
        <<grid_points[i][1], grid_points[i][2], rate_mean[i]>>]

(* Variant: the except branch leaves the held overlay in place *)
PredictExceptKeep(s) == s

(* except branch, lines 93-95 *)
PredictExcept(s) == [s EXCEPT !["pred_heat"] = NoneVal]

(* Variant: the new entries are appended to the overlay held before *)
StoreHeatAppend(s, pred_heat) ==
    [s EXCEPT !["pred_heat"] =
                  ListVal((IF @ = NoneVal THEN <<>> ELSE @.items) \o pred_heat),
              !["last_refresh"] = @ + 1]

(* Variant: the counter is left as it was *)
StoreHeatNoBump(s, pred_heat) ==
    [s EXCEPT !["pred_heat"] = ListVal(pred_heat)]

(* lines 87-88 *)
StoreHeat(s, pred_heat) ==
    [s EXCEPT !["pred_heat"] = ListVal(pred_heat), !["last_refresh"] = @ + 1]

(* float(rate) of line 84 raises on a rate that is no number *)
FloatRaise(m, grid_points, rate_mean) ==
    m.beh = "nonnumeric" /\ Len(grid_points) > 0 /\ Len(rate_mean) > 0

(* np.min(rates) of line 91 raises ValueError on an empty list *)
StatsRaise(pred_heat) == Len(pred_heat) = 0

(* The whole try/except; the result is the session state, the record of    *)
(* what was done, and the parameters of the overlay left in the session.   *)
PredictBlock(s, m, lat_res, lon_res, samples) ==
    LET t0 == [NoTrace EXCEPT !.entered = TRUE]
    IN
    IF ~m.load
    THEN [ss |-> PredictExcept(s), trace |-> [t0 EXCEPT !.raised = TRUE],
          params |-> <<0, 0, 0>>]
    ELSE
      LET grid_lat == Linspace(lat_min, lat_max, lat_res)
          grid_lon == Linspace(lon_min, lon_max, lon_res)
          grid_points == GridPoints(grid_lat, grid_lon)
          coords_pred == CoordsPred(grid_points)
          t1 == [t0 EXCEPT !.loaded = TRUE, !.grid = grid_points,
                           !.calls = <<[coords |-> coords_pred, num_samples |-> samples]>>]
      IN
      IF m.beh = "raise"
      THEN [ss |-> PredictExcept(s), trace |-> [t1 EXCEPT !.raised = TRUE],
            params |-> <<0, 0, 0>>]
      ELSE
        LET rate_mean == PredictRate(m, coords_pred, samples)
            t2 == [t1 EXCEPT !.rate_mean = rate_mean]
        IN
        IF FloatRaise(m, grid_points, rate_mean)
        THEN [ss |-> PredictExcept(s), trace |-> [t2 EXCEPT !.raised = TRUE],
              params |-> <<0, 0, 0>>]
        ELSE
          LET pred_heat == ZipHeat(grid_points, rate_mean)
              s1 == StoreHeat(s, pred_heat)
              t3 == [t2 EXCEPT !.stored = TRUE]
          IN
          IF StatsRaise(pred_heat)
          THEN [ss |-> PredictExcept(s1), trace |-> [t3 EXCEPT !.raised = TRUE],
                params |-> <<0, 0, 0>>]
          ELSE [ss |-> s1, trace |-> t3, params |-> <<lat_res, lon_res, samples>>]

-----------------------------------------------------------------------------
(* The widgets, lines 29-39.  A slider keeps its value from run to run     *)
(* until the user moves it.  The modelled positions are the lowest ones    *)
(* of the latitude and sample sliders and the lowest one of the longitude  *)
(* slider; the script treats the default position (40, 80, 500) like any   *)
(* other, so a session starts at any modelled position.                    *)

LatSliderValues == {LatSliderMin + LatSliderStep * k : k \in 0..MaxLatSteps}
LonSliderValues == {LonSliderMin}
SampleSliderValues == {SampleSliderMin, SampleSliderMin + SampleSliderStep}

(* What starts a script run: the page load or an interaction that changes  *)
(* no modelled widget, a click on the button, or a move of one slider.     *)
Triggers == {"rerun", "click", "lat", "lon", "samples"}

-----------------------------------------------------------------------------
(* State after construction: an empty session, no run started *)

NoSession == [id |-> 0]

InitWith(LatValues, LonValues) ==
    /\ ss = [k \in {} |-> NoneVal]
    /\ pc = "idle"
    /\ refresh = FALSE
    /\ grid_lat_res \in LatValues
    /\ grid_lon_res \in LonValues
    /\ num_samples \in SampleSliderValues
    /\ first_run = FALSE
    /\ had_overlay = FALSE
    /\ dataset = NoDataset
    /\ model = NoModel
    /\ trace = NoTrace
    /\ overlay_params = <<0, 0, 0>>
    /\ dataset_warning = FALSE
    /\ overlay_model = NoModel
    /\ repeated = FALSE
    /\ suspended = NoSession

Init == InitWith(LatSliderValues, LonSliderValues)

(* Lines 22-46: initialisation, widgets, refresh condition, productivity *)
StartRunWith(LatValues, LonValues) ==
    /\ pc = "idle"
    /\ \E trigger \in Triggers :
       \E la \in LatValues, lo \in LonValues, ns \in SampleSliderValues :
        LET s0 == InitSession(ss)
            button == trigger = "click"
            go == RefreshCondition(s0, button)
        IN  /\ ~(Keys \subseteq DOMAIN ss) => trigger = "rerun"
            /\ trigger # "lat" => la = grid_lat_res
            /\ trigger # "lon" => lo = grid_lon_res
            /\ trigger # "samples" => ns = num_samples
            /\ trigger = "lat" => la # grid_lat_res
            /\ trigger = "lon" => lo # grid_lon_res
            /\ trigger = "samples" => ns # num_samples
            /\ go => s0["last_refresh"] < MaxGen
            /\ refresh' = button
            /\ grid_lat_res' = la
            /\ grid_lon_res' = lo
            /\ num_samples' = ns
            /\ first_run' = ~(Keys \subseteq DOMAIN ss)
            /\ had_overlay' = (s0["pred_heat"].kind # "None")
            /\ IF go
               THEN ss' = RegenerateProductivity(s0) /\ pc' = "load"
               ELSE ss' = s0 /\ pc' = "render"
    /\ dataset' = NoDataset
    /\ model' = NoModel
    /\ trace' = NoTrace
    /\ dataset_warning' = FALSE
    /\ repeated' = FALSE
    /\ UNCHANGED <<overlay_params, overlay_model, suspended>>

StartRun == StartRunWith(LatSliderValues, LonSliderValues)

(* Lines 47-65 *)
LoadDataset ==
    /\ pc = "load"
    /\ \E ds \in Datasets :
        /\ ss' = LoadSharks(ss, ds)
        /\ dataset' = ds
        /\ dataset_warning' = LoadWarning(ds)
    /\ pc' = "predict"
    /\ UNCHANGED <<refresh, grid_lat_res, grid_lon_res, num_samples, first_run,
                   had_overlay, model, trace, overlay_params, overlay_model,
                   repeated, suspended>>

(* Lines 66-95 *)
Predict ==
    /\ pc = "predict"
    /\ \E m \in Models :
        \E r \in {PredictBlock(ss, m, grid_lat_res, grid_lon_res, num_samples)} :
            /\ ss' = r.ss
            /\ trace' = r.trace
            /\ overlay_params' = r.params
            /\ model' = m
            /\ overlay_model' = IF trace'.raised THEN NoModel ELSE m
            /\ repeated' = /\ ss["pred_heat"] # NoneVal
                           /\ ~trace'.raised
                           /\ overlay_params' = overlay_params
                           /\ m = overlay_model
    /\ pc' = "render"
    /\ UNCHANGED <<refresh, grid_lat_res, grid_lon_res, num_samples, first_run,
                   had_overlay, dataset, dataset_warning, suspended>>

(* Lines 97-161: the map is built from the session state, which is only    *)
(* read; the run ends and its locals are gone.                             *)
Render ==
    /\ pc = "render"
    /\ pc' = "idle"
    /\ refresh' = FALSE
    /\ first_run' = FALSE
    /\ had_overlay' = FALSE
    /\ dataset' = NoDataset
    /\ model' = NoModel
    /\ trace' = NoTrace
    /\ dataset_warning' = FALSE
    /\ repeated' = FALSE
    /\ UNCHANGED <<ss, grid_lat_res, grid_lon_res, num_samples, overlay_params,
                   overlay_model, suspended>>

Next == StartRun \/ LoadDataset \/ Predict \/ Render

Spec == Init /\ [][Next]_vars

(* The refresh block as a function of its resolutions: the same script     *)
(* with the two resolutions drawn from 1..MaxRes at the start and kept     *)
(* for the session.                                                        *)
BlockResolutions == 1..MaxRes

InitBlock == InitWith(BlockResolutions, BlockResolutions)

StartBlock == StartRunWith({grid_lat_res}, {grid_lon_res})

NextBlock == StartBlock \/ LoadDataset \/ Predict \/ Render

SpecBlock == InitBlock /\ [][NextBlock]_vars

-----------------------------------------------------------------------------
(* Two sessions served by one process.  Streamlit runs the script of each  *)
(* session in a thread of its own, with the st.session_state, the widget   *)
(* values and the locals of that session; the script keeps nothing in      *)
(* module-level objects and writes no file.  The threads are interleaved   *)
(* at the steps of the model: Switch suspends the running session and      *)
(* resumes the other one.  The sessions keep their sliders at TwoRes x     *)
(* TwoRes and the lowest sample count, and meet the datasets and models    *)
(* of TwoDatasets and TwoModels.                                           *)

Sessions == {1, 2}

Other(i) == CHOOSE j \in Sessions : j # i

(* The values the running session has, as session `id` *)
ThisSession(id) ==
    [id |-> id, ss |-> ss, pc |-> pc, refresh |-> refresh,
     grid_lat_res |-> grid_lat_res, grid_lon_res |-> grid_lon_res,
     num_samples |-> num_samples, first_run |-> first_run,
     had_overlay |-> had_overlay, dataset |-> dataset, model |-> model,
     trace |-> trace, overlay_params |-> overlay_params,
     dataset_warning |-> dataset_warning, overlay_model |-> overlay_model,
     repeated |-> repeated]

(* Variant: one session state for the whole process *)
ResumeShared(saved, running) == [saved EXCEPT !.ss = running.ss]

(* What a resumed session continues with: its own values *)
Resume(saved, running) == saved

TwoDatasets ==
    {[status |-> "error", rows |-> 0], [status |-> "ok", rows |-> SmallRows]}

TwoModels ==
    {[load |-> FALSE, beh |-> "const", cnt |-> "exact"],
     [load |-> TRUE, beh |-> "const", cnt |-> "exact"],
     [load |-> TRUE, beh |-> "const", cnt |-> "empty"]}

InitTwo ==
    /\ ss = [k \in {} |-> NoneVal]
    /\ pc = "idle"
    /\ refresh = FALSE
    /\ grid_lat_res = TwoRes
    /\ grid_lon_res = TwoRes
    /\ num_samples = SampleSliderMin
    /\ first_run = FALSE
    /\ had_overlay = FALSE
    /\ dataset = NoDataset
    /\ model = NoModel
    /\ trace = NoTrace
    /\ overlay_params = <<0, 0, 0>>
    /\ dataset_warning = FALSE
    /\ overlay_model = NoModel
    /\ repeated = FALSE
    /\ suspended = ThisSession(2)

StartTwo ==
    /\ StartRunWith({grid_lat_res}, {grid_lon_res})
    /\ num_samples' = num_samples

LoadTwo ==
    /\ LoadDataset
    /\ dataset' \in TwoDatasets

PredictTwo ==
    /\ Predict
    /\ model' \in TwoModels

Switch ==
    /\ suspended.id \in Sessions
    /\ \E next \in {Resume(suspended, ThisSession(Other(suspended.id)))} :
        /\ ss' = next.ss
        /\ pc' = next.pc
        /\ refresh' = next.refresh
        /\ grid_lat_res' = next.grid_lat_res
        /\ grid_lon_res' = next.grid_lon_res
        /\ num_samples' = next.num_samples
        /\ first_run' = next.first_run
        /\ had_overlay' = next.had_overlay
        /\ dataset' = next.dataset
        /\ model' = next.model
        /\ trace' = next.trace
        /\ overlay_params' = next.overlay_params
        /\ dataset_warning' = next.dataset_warning
        /\ overlay_model' = next.overlay_model
        /\ repeated' = next.repeated
    /\ suspended' = ThisSession(Other(suspended.id))

NextTwo == StartTwo \/ LoadTwo \/ PredictTwo \/ Render \/ Switch

SpecTwo == InitTwo /\ [][NextTwo]_vars

-----------------------------------------------------------------------------
(* What the rest of the program sees of the session; before the first run  *)
(* nothing is held and the generation is 0.                                *)

Get(s, k) ==
    IF k \in DOMAIN s THEN s[k]
    ELSE IF k = "last_refresh" THEN 0 ELSE NoneVal

Overlay == Get(ss, "pred_heat")
PointDataset == Get(ss, "shark_locs")
Generation == Get(ss, "last_refresh")
Held == Overlay.kind # "None"
Observed == <<Overlay, PointDataset, Generation>>

-----------------------------------------------------------------------------
(* C1: in a run that refreshes, the generation counter grows by exactly 1  *)
(* when the prediction step completes without raising and is unchanged     *)
(* when an exception is raised anywhere in the try block; no other step    *)
(* of a run changes it.                                                    *)
C1_GenerationCounter ==
    [][/\ pc = "predict" =>
            IF trace'.raised
            THEN Generation' = Generation
            ELSE Generation' = Generation + 1
       /\ pc # "predict" => Generation' = Generation]_vars

(* C2: when the model load or the model call raises, the run ends with no  *)
(* overlay, whatever was held before, and with the dataset as the load     *)
(* step of the same run stored it.                                         *)
C2_FailureIsolatesState ==
    [][/\ (pc = "predict" /\ (~model'.load \/ model'.beh = "raise")) =>
            /\ ~Held'
            /\ PointDataset' = PointDataset
       /\ pc = "render" => Observed' = Observed]_vars

C2_Witness ==
    /\ pc = "render"
    /\ model.load
    /\ model.beh = "raise"
    /\ had_overlay
    /\ dataset.status = "ok"
    /\ Len(PointDataset.items) > 0

(* C3: a run without the refresh trigger changes neither the overlay, the  *)
(* dataset nor the generation counter, from Empty (the initial state       *)
(* included) and from Ready.                                               *)
C3_NoTransitionWithoutTrigger ==
    [][~refresh' => Observed' = Observed]_vars

(* C3 amended: a run without the refresh trigger that is not the first     *)
(* run of the session changes neither the overlay, the dataset nor the     *)
(* generation counter.                                                     *)
C3_NoTransitionAfterFirstRun ==
    [][(~refresh' /\ ~first_run') => Observed' = Observed]_vars

C3_Witness ==
    /\ pc = "render"
    /\ ~refresh
    /\ ~first_run
    /\ Held
    /\ Generation >= 1

(* C4: when the overlay is rendered, a held overlay was computed with the  *)
(* resolutions and the sample count selected in that run.                  *)
C4_OverlayMatchesSliders ==
    (pc = "render" /\ Held) =>
        overlay_params = <<grid_lat_res, grid_lon_res, num_samples>>

(* C5: the dataset load and the prediction degrade independently: whatever *)
(* the dataset load met, the run goes on to the prediction with the        *)
(* overlay and the generation untouched and the dataset set by the load's  *)
(* outcome alone; whatever the prediction met, the run goes on to the      *)
(* rendering with the dataset untouched and an overlay held exactly when   *)
(* nothing was raised.                                                     *)
C5_IndependentDegradation ==
    [][/\ pc = "load" =>
            /\ pc' = "predict"
            /\ Overlay' = Overlay
            /\ Generation' = Generation
            /\ PointDataset'.kind = "list"
            /\ Len(PointDataset'.items) =
                 (IF dataset'.status = "ok" THEN Min(dataset'.rows, MaxSharks) ELSE 0)
       /\ pc = "predict" =>
            /\ pc' = "render"
            /\ PointDataset' = PointDataset
            /\ Held' <=> ~trace'.raised]_vars

C5_Witness ==
    /\ pc = "render"
    /\ dataset.status = "error"
    /\ trace.entered
    /\ ~trace.raised
    /\ Held
    /\ PointDataset.items = <<>>

(* C6: a run recomputes exactly when the trigger is set or the session     *)
(* has no prior state; a recompute loads the dataset and enters the        *)
(* prediction, and the model is called with the grid and the sample count  *)
(* of that run.                                                            *)
C6_RecomputeCondition ==
    pc = "render" =>
        /\ trace.entered <=> (refresh \/ first_run)
        /\ trace.entered <=> dataset.status # "unused"
        /\ \A i \in 1..Len(trace.calls) :
              /\ Len(trace.calls[i].coords) = grid_lat_res * grid_lon_res
              /\ trace.calls[i].num_samples = num_samples
        /\ (trace.entered /\ Held) =>
              overlay_params = <<grid_lat_res, grid_lon_res, num_samples>>

C6_Witness ==
    /\ pc = "render"
    /\ ~refresh
    /\ first_run
    /\ trace.entered
    /\ Len(trace.calls) = 1
    /\ dataset.status = "ok"

C8_CompleteOverlay ==
    (pc = "render" /\ trace.entered /\ Held) =>
        Len(Overlay.items) = grid_lat_res * grid_lon_res

(* The four corners of the box, latitude outside, longitude inside *)
BoxCorners == <<<<lat_min, lon_min>>, <<lat_min, lon_max>>,
                <<lat_max, lon_min>>, <<lat_max, lon_max>>>>

(* C9: the i-th entry of the stored overlay carries the latitude and       *)
(* longitude of the i-th grid point and the i-th rate the model returned,  *)
(* and the i-th model input is that grid point normalised; a 2 x 2 grid    *)
(* with a model returning 1 everywhere gives the four corners of the box,  *)
(* each with rate 1.                                                       *)
C9_OrderPreservation ==
    (pc = "render" /\ trace.entered /\ Held) =>
        /\ \A i \in 1..Len(Overlay.items) :
              LET e == Overlay.items[i]
                  g == trace.grid[i]
                  c == trace.calls[1].coords[i]
              IN  /\ e[1] = g[1]
                  /\ e[2] = g[2]
                  /\ e[3] = trace.rate_mean[i]
                  /\ RatEq(c[1], Rat(g[2].n - lon_min * g[2].d, (lon_max - lon_min) * g[2].d))
                  /\ RatEq(c[2], Rat(g[1].n - lat_min * g[1].d, (lat_max - lat_min) * g[1].d))
        /\ (grid_lat_res = 2 /\ grid_lon_res = 2
            /\ model.beh = "const" /\ model.cnt = "exact") =>
              /\ Len(Overlay.items) = 4
              /\ \A i \in 1..4 :
                    /\ RatEq(Overlay.items[i][1], Rat(BoxCorners[i][1], 1))
                    /\ RatEq(Overlay.items[i][2], Rat(BoxCorners[i][2], 1))
                    /\ Overlay.items[i][3] = 1

C9_Witness ==
    /\ pc = "render"
    /\ trace.entered
    /\ Held
    /\ grid_lat_res = 2
    /\ grid_lon_res = 2
    /\ model.beh = "const"
    /\ model.cnt = "exact"
    /\ Len(Overlay.items) = 4

(* C10: for resolutions R >= 2 and C >= 2 the grid has R x C points, the   *)
(* point of latitude index r and longitude index c at place (r-1)*C + c    *)
(* (longitude varies fastest); the first point is (lat_min, lon_min), the  *)
(* last (lat_max, lon_max), and the latitudes and longitudes are evenly    *)
(* spaced.                                                                 *)
C10_GridShape ==
    (pc = "render" /\ trace.loaded /\ grid_lat_res >= 2 /\ grid_lon_res >= 2) =>
        LET R == grid_lat_res
            C == grid_lon_res
            g == trace.grid
            LatOf(r) == g[(r - 1) * C + 1][1]
            LonOf(c) == g[c][2]
        IN  /\ Len(g) = R * C
            /\ \A r \in 1..R : \A c \in 1..C :
                  /\ g[(r - 1) * C + c][1] = LatOf(r)
                  /\ g[(r - 1) * C + c][2] = LonOf(c)
            /\ RatEq(g[1][1], Rat(lat_min, 1))
            /\ RatEq(g[1][2], Rat(lon_min, 1))
            /\ RatEq(g[R * C][1], Rat(lat_max, 1))
            /\ RatEq(g[R * C][2], Rat(lon_max, 1))
            /\ \A r \in 1..(R - 1) :
                  RatEq(Rat(LatOf(r + 1).n * LatOf(r).d - LatOf(r).n * LatOf(r + 1).d,
                            LatOf(r + 1).d * LatOf(r).d),
                        Rat(lat_max - lat_min, R - 1))
            /\ \A c \in 1..(C - 1) :
                  RatEq(Rat(LonOf(c + 1).n * LonOf(c).d - LonOf(c).n * LonOf(c + 1).d,
                            LonOf(c + 1).d * LonOf(c).d),
                        Rat(lon_max - lon_min, C - 1))

C10_Witness ==
    /\ pc = "render"
    /\ trace.loaded
    /\ grid_lat_res = 3
    /\ grid_lon_res = 2
    /\ Len(trace.grid) = 6

(* C11: a run that recomputes loads the model at most once and calls       *)
(* predict_rate at most once, after the load, with all R x C normalised    *)
(* points in that one call; a run that does not recompute neither loads    *)
(* nor calls the model.                                                    *)
C11_SingleBatchedCall ==
    pc = "render" =>
        /\ Len(trace.calls) <= 1
        /\ trace.calls # <<>> => trace.loaded
        /\ \A i \in 1..Len(trace.calls) :
              /\ Len(trace.calls[i].coords) = grid_lat_res * grid_lon_res
              /\ Len(trace.calls[i].coords) = Len(trace.grid)
        /\ (model.load /\ trace.entered) => (trace.loaded /\ Len(trace.calls) = 1)
        /\ ~(refresh \/ first_run) => (~trace.loaded /\ trace.calls = <<>>)

C11_Witness ==
    /\ pc = "render"
    /\ refresh
    /\ ~first_run
    /\ trace.loaded
    /\ Len(trace.calls) = 1
    /\ Len(trace.calls[1].coords) = (LatSliderMin + LatSliderStep) * LonSliderMin

(* C12: after a load that met the two columns, the stored dataset is the   *)
(* first 1000 source rows in their order when the source has more than     *)
(* 1000 rows and the source rows unchanged otherwise; a stored dataset     *)
(* never has more than 1000 entries.                                       *)
C12_DatasetCap ==
    /\ (pc \in {"predict", "render"} /\ dataset.status = "ok") =>
          LET source == DataFrame(dataset.rows)
              stored == PointDataset.items
          IN  IF dataset.rows > MaxSharks
              THEN /\ Len(stored) = MaxSharks
                   /\ \A i \in 1..MaxSharks : stored[i] = source[i]
              ELSE stored = source
    /\ PointDataset.kind = "list" => Len(PointDataset.items) <= MaxSharks

C12_Witness ==
    /\ pc = "predict"
    /\ dataset.status = "ok"
    /\ dataset.rows = MaxSharks + 1
    /\ Len(PointDataset.items) = MaxSharks
    /\ PointDataset.items[MaxSharks] = Row(MaxSharks)

(* C13: when the dataset file cannot be read or lacks one of the two       *)
(* columns, the load stores the empty dataset whatever was held before,    *)
(* surfaces a warning and changes neither the overlay nor the generation   *)
(* counter.                                                                *)
C13_DatasetFailure ==
    [][(pc = "load" /\ dataset'.status \in {"error", "nocols"}) =>
            /\ PointDataset' = ListVal(<<>>)
            /\ dataset_warning'
            /\ Overlay' = Overlay
            /\ Generation' = Generation]_vars

C13_Witness ==
    /\ pc = "predict"
    /\ dataset.status = "nocols"
    /\ dataset_warning
    /\ ~first_run
    /\ Held
    /\ Generation >= 1
    /\ PointDataset = ListVal(<<>>)

(* C14: every grid point of a refresh lies inside the box (latitude 8..55, *)
(* longitude -98..-25), and the triple passed to the model for it is       *)
(* ((lon - lon_min) / (lon_max - lon_min), (lat - lat_min) / (lat_max -    *)
(* lat_min), t_last) with its three components in [0, 1], the box being    *)
(* the same in every refresh.                                              *)
C14_NormalizedInUnitBox ==
    (pc = "render" /\ trace.loaded) =>
        /\ lat_min = 8 /\ lat_max = 55 /\ lon_min = -98 /\ lon_max = -25
        /\ \A k \in 1..Len(trace.calls) :
              LET coords == trace.calls[k].coords
              IN  /\ Len(coords) = Len(trace.grid)
                  /\ \A i \in 1..Len(coords) :
                        LET g == trace.grid[i]
                            c == coords[i]
                        IN  /\ g[1].d > 0 /\ g[2].d > 0
                            /\ lat_min * g[1].d <= g[1].n /\ g[1].n <= lat_max * g[1].d
                            /\ lon_min * g[2].d <= g[2].n /\ g[2].n <= lon_max * g[2].d
                            /\ RatEq(c[1], Rat(g[2].n - lon_min * g[2].d,
                                               (lon_max - lon_min) * g[2].d))
                            /\ RatEq(c[2], Rat(g[1].n - lat_min * g[1].d,
                                               (lat_max - lat_min) * g[1].d))
                            /\ c[3] = t_last
                            /\ \A j \in 1..3 :
                                  c[j].d > 0 /\ 0 <= c[j].n /\ c[j].n <= c[j].d

C14_Witness ==
    /\ pc = "render"
    /\ trace.loaded
    /\ Generation = 2
    /\ Len(trace.calls) = 1
    /\ Len(trace.calls[1].coords) = LatSliderMin * LonSliderMin
    /\ RatEq(trace.calls[1].coords[LatSliderMin * LonSliderMin][1], Rat(1, 1))
    /\ RatEq(trace.calls[1].coords[1][2], Rat(0, 1))

(* C15: a successful refresh made with the resolutions, the sample count   *)
(* and the (deterministic) model of the refresh that stored the overlay    *)
(* held so far stores the same sequence of entries again; only the         *)
(* generation counter differs, by one.                                     *)
C15_Idempotence ==
    [][(/\ pc = "predict"
        /\ Held
        /\ Held'
        /\ overlay_params' = overlay_params
        /\ overlay_model' = overlay_model) =>
            /\ Overlay' = Overlay
            /\ Generation' = Generation + 1]_vars

C15_Witness ==
    /\ pc = "render"
    /\ repeated
    /\ had_overlay
    /\ Held
    /\ model.beh = "grad"
    /\ Len(Overlay.items) > 0
    /\ Generation = 2

(* What a render pass shows of the overlay: the heat layer of lines        *)
(* 112-128, present when an overlay is held, named by the generation and   *)
(* carrying the held entries; and the key of the map widget, line 156.     *)
HeatLayer == IF Held THEN <<Generation, Overlay.items>> ELSE <<>>
MapKey == Generation

(* C16: as long as the generation (the suffix of the layer name and of     *)
(* the widget key) stays the same, what is shown of the overlay stays the  *)
(* same: a change of the displayed overlay, its disappearance included,    *)
(* comes with a change of the generation.                                  *)
C16_GenerationIdentifiesOverlay ==
    [][MapKey' = MapKey => HeatLayer' = HeatLayer]_vars

(* C16 amended: as long as the generation stays the same, a heat layer     *)
(* that is shown is the one shown before; under an unchanged generation    *)
(* the layer can only disappear.                                           *)
C16_GenerationIdentifiesHeldOverlay ==
    [][(MapKey' = MapKey /\ HeatLayer' # <<>>) => HeatLayer' = HeatLayer]_vars

C16_Witness ==
    /\ pc = "render"
    /\ had_overlay
    /\ Held
    /\ trace.stored
    /\ ~repeated
    /\ overlay_params[1] = LatSliderMin + LatSliderStep
    /\ MapKey = 2
    /\ HeatLayer[1] = 2

(* C17: the generation counter is 0 after the initialisation of the first  *)
(* run, never decreases from one step to the next, and is at least 1       *)
(* whenever an overlay is held; the initialisation block sets the four     *)
(* keys in the first run of the session only: the start of a later run     *)
(* leaves the overlay, the dataset and the counter as they were.           *)
C17_GenerationMonotone ==
    [][/\ Generation' >= Generation
       /\ Held' => Generation' >= 1
       /\ (pc = "idle" /\ first_run') =>
             /\ DOMAIN ss = {}
             /\ Generation' = 0
             /\ ~Held'
       /\ (pc = "idle" /\ DOMAIN ss # {}) =>
             /\ ~first_run'
             /\ Observed' = Observed]_vars

C17_Witness ==
    /\ pc = "render"
    /\ ~first_run
    /\ refresh
    /\ had_overlay
    /\ trace.raised
    /\ ~trace.stored
    /\ ~Held
    /\ Generation = 1

(* The overlay, the dataset and the generation counter of session i *)
ObservedOf(i) ==
    LET s == IF suspended.id = i THEN suspended.ss ELSE ss
    IN  <<Get(s, "pred_heat"), Get(s, "shark_locs"), Get(s, "last_refresh")>>

(* C18: with two sessions interleaved, a step of one session's run, a      *)
(* successful or failed refresh included, leaves the overlay, the dataset  *)
(* and the generation counter of the other session as they were, and       *)
(* suspending and resuming change those of neither.                        *)
C18_SessionIsolation ==
    [][\A i \in Sessions :
          (suspended.id = i \/ suspended'.id # suspended.id) =>
              ObservedOf(i)' = ObservedOf(i)]_vars

C18_Witness ==
    /\ suspended.id = 1
    /\ pc = "render"
    /\ trace.stored
    /\ Held
    /\ Generation = 2
    /\ suspended.pc = "predict"
    /\ Get(suspended.ss, "pred_heat") = NoneVal
    /\ Get(suspended.ss, "last_refresh") = 1
    /\ Len(Get(suspended.ss, "shark_locs").items) = SmallRows

(* C19: at the rendering stage of every run, the first run of a session    *)
(* and a run after a failed refresh included, the dataset is a list,       *)
(* possibly empty, and not None; the first run of a session loads the      *)
(* dataset.                                                                *)
C19_DatasetNeverNoneAtRender ==
    pc = "render" =>
        /\ PointDataset.kind = "list"
        /\ first_run => dataset.status # "unused"

C19_Witness ==
    /\ pc = "render"
    /\ first_run
    /\ ~refresh
    /\ dataset.status = "error"
    /\ trace.raised
    /\ ~Held
    /\ PointDataset = ListVal(<<>>)

====
